---- MODULE Spec2Model ----
(***************************************************************************)
(* Model of the data store of the To-Do application (src/database.py) and  *)
(* of the handlers of its pages (src/todo_app_streamlit.py).  The five     *)
(* tables of init_db and st.session_state are the state; every method of   *)
(* Database is one action that performs the whole call and records what it *)
(* returned, and every handler is one action with the calls it makes.      *)
(***************************************************************************)
EXTENDS Integers, Sequences, FiniteSets, TLC

VARIABLES
    users,                  \* rows of table users
    password_reset_tokens,  \* rows of table password_reset_tokens
    tasks,                  \* rows of table tasks
    tags,                   \* rows of table tags
    task_tags,              \* rows of table task_tags: <<task_id, tag_id>>
    sqlite_sequence,        \* AUTOINCREMENT: the largest id ever given, per table
    now,                    \* the clock (datetime.now()), in hours
    last,                   \* the step that led to this state: [op, args, ret]
    inflight,               \* per session: a call between its steps
    reset_ok,               \* history: per token, the reset_password calls that returned True
    session_state,          \* st.session_state of one browser session
    deleted_tasks           \* history: the ids of the tasks delete_task removed

vars == <<users, password_reset_tokens, tasks, tags, task_tags,
          sqlite_sequence, now, last, inflight, reset_ok, session_state,
          deleted_tasks>>

----------------------------------------------------------------------------
(* Bounds of the model *)

MaxUsers == 2
MaxTokens == 2
MaxClock == 24
ClockStep == 12
MaxTasks == 1
MaxTagListLen == 1
MaxListTasks == 3
MaxRaceTasks == 2
MaxUITasks == 2
MaxViewTasks == 2

(* timedelta(hours=24) of create_password_reset_token *)
TokenValidHours == 24

(* What a caller may pass.  Usernames and emails are both TEXT columns and  *)
(* the store does not look at their form, so one set serves for both.       *)
Strings == {"ann", "bob@x.com"}
Passwords == {"pw1", "pw2"}
TokenStrings == {"tokA", "tokB"}
Sessions == {1, 2}

(* Python's None where an id is expected; AUTOINCREMENT ids start at 1. *)
NoId == 0
(* Python's None where a token string is expected. *)
NoToken == "None"

----------------------------------------------------------------------------
(* Helpers *)

(* hashlib.sha256(password.encode()).hexdigest(): a one-way function that  *)
(* is injective on the passwords of the model and never the password.      *)
sha256(password) == <<"sha256", password>>

(* The next AUTOINCREMENT id of a table. *)
NextId(table) == sqlite_sequence[table] + 1

Returned(op, args, ret) == last' = [op |-> op, args |-> args, ret |-> ret]

(* st.session_state once main has run in a browser session where nobody has *)
(* logged in: authenticated = False, tasks = [], no key 'tags' (has_tags),  *)
(* no key 'user_id'.                                                        *)
FreshSession ==
    [authenticated |-> FALSE, user_id |-> NoId, tasks |-> <<>>,
     has_tags |-> FALSE, tags |-> {}]

----------------------------------------------------------------------------
(* Accounts *)

(* username TEXT UNIQUE, email TEXT UNIQUE: the INSERT raises IntegrityError *)
UsersUniqueViolation_UsernameOnly(username, email) ==
    \E u \in users : u.username = username

UsersUniqueViolation(username, email) ==
    \E u \in users : u.username = username \/ u.email = email

create_user(username, email, password) ==
    IF UsersUniqueViolation(username, email)
    THEN /\ Returned("create_user", <<username, email, password>>, FALSE)
         /\ UNCHANGED <<users, sqlite_sequence>>
    ELSE /\ NextId("users") <= MaxUsers
         /\ users' = users \cup
                {[id |-> NextId("users"), username |-> username, email |-> email,
                  password_hash |-> sha256(password), created_at |-> now]}
         /\ sqlite_sequence' = [sqlite_sequence EXCEPT !["users"] = NextId("users")]
         /\ Returned("create_user", <<username, email, password>>, TRUE)

(* The rows of SELECT id FROM users WHERE (username = ? OR email = ?) AND password_hash = ? *)
(* read from the table rows                                                  *)
VerifyUserRows(rows, identifier, password) ==
    {u \in rows : /\ (u.username = identifier \/ u.email = identifier)
                  /\ u.password_hash = sha256(password)}

(* fetchone() takes one of the rows; the query has no ORDER BY. *)
verify_user(identifier, password) ==
    LET rows == VerifyUserRows(users, identifier, password)
    IN  IF rows = {}
        THEN Returned("verify_user", <<identifier, password>>, NoId)
        ELSE \E r \in rows : Returned("verify_user", <<identifier, password>>, r.id)

----------------------------------------------------------------------------
(* Password reset tokens *)

(* token TEXT UNIQUE *)
TokenExists(token) == \E t \in password_reset_tokens : t.token = token

(* expires_at = datetime.now() + timedelta(hours=24) *)
ExpiresAt(issued) == issued + TokenValidHours

(* secrets.token_urlsafe(32) is the draw of token from TokenStrings. *)
create_password_reset_token(email, token) ==
    LET rows == {u \in users : u.email = email}
        args == <<email>>
    IN  IF rows = {}
        THEN /\ Returned("create_password_reset_token", args, NoToken)
             /\ UNCHANGED <<password_reset_tokens, sqlite_sequence>>
        ELSE IF TokenExists(token)
        THEN \* the INSERT raises IntegrityError, the connection rolls back
             /\ Returned("create_password_reset_token", args, "IntegrityError")
             /\ UNCHANGED <<password_reset_tokens, sqlite_sequence>>
        ELSE /\ NextId("password_reset_tokens") <= MaxTokens
             /\ \E u \in rows :
                  password_reset_tokens' = password_reset_tokens \cup
                     {[id |-> NextId("password_reset_tokens"), user_id |-> u.id,
                       token |-> token, expires_at |-> ExpiresAt(now),
                       used |-> FALSE]}
             /\ sqlite_sequence' =
                  [sqlite_sequence EXCEPT !["password_reset_tokens"] =
                                             NextId("password_reset_tokens")]
             /\ Returned("create_password_reset_token", args, token)

(* The rows of SELECT user_id FROM password_reset_tokens                    *)
(* WHERE token = ? AND expires_at > ? AND used = FALSE, read at clock value *)
(* clock from the table toks.                                               *)
ValidTokenRows_ExpiryInclusive(toks, token, clock) ==
    {t \in toks : t.token = token /\ t.expires_at >= clock /\ t.used = FALSE}

ValidTokenRows(toks, token, clock) ==
    {t \in toks : t.token = token /\ t.expires_at > clock /\ t.used = FALSE}

(* result[0] if result else None; token is UNIQUE, so there is one row at most *)
VerifyResetToken(toks, token, clock) ==
    LET rows == ValidTokenRows(toks, token, clock)
    IN  IF rows = {} THEN NoId ELSE (CHOOSE t \in rows : TRUE).user_id

verify_reset_token(token) ==
    Returned("verify_reset_token", <<token>>,
             VerifyResetToken(password_reset_tokens, token, now))

(* UPDATE users SET password_hash = ? WHERE id = ? *)
SetPassword_EveryRow(rows, user_id, new_password) ==
    {[u EXCEPT !.password_hash = sha256(new_password)] : u \in rows}

SetPassword(rows, user_id, new_password) ==
    {IF u.id = user_id THEN [u EXCEPT !.password_hash = sha256(new_password)] ELSE u
       : u \in rows}

(* UPDATE password_reset_tokens SET used = TRUE WHERE token = ? *)
MarkUsed_EveryRow(toks, token) ==
    {[t EXCEPT !.used = TRUE] : t \in toks}

MarkUsed(toks, token) ==
    {IF t.token = token THEN [t EXCEPT !.used = TRUE] ELSE t : t \in toks}

(* A session with no reset_password call under way. *)
Idle == [pc |-> "idle", token |-> NoToken, new_password |-> NoToken, user_id |-> NoId]

(* One call, start to end, with no other call in between. *)
reset_password(token, new_password) ==
    LET user_id == VerifyResetToken(password_reset_tokens, token, now)
        args == <<token, new_password>>
    IN  IF user_id = NoId
        THEN /\ Returned("reset_password", args, FALSE)
             /\ UNCHANGED <<users, password_reset_tokens, reset_ok>>
        ELSE /\ users' = SetPassword(users, user_id, new_password)
             /\ password_reset_tokens' = MarkUsed(password_reset_tokens, token)
             /\ reset_ok' = [reset_ok EXCEPT ![token] = @ + 1]
             /\ Returned("reset_password", args, TRUE)

(* Time passes. *)
Tick ==
    /\ now + ClockStep <= MaxClock
    /\ now' = now + ClockStep
    /\ Returned("tick", <<>>, TRUE)
    /\ UNCHANGED <<users, password_reset_tokens, tasks, tags, task_tags,
                   sqlite_sequence, inflight, reset_ok, session_state,
                         deleted_tasks>>

----------------------------------------------------------------------------
(* Tasks and tags.  A tag name is a string, modelled as the sequence of its *)
(* characters, since get_tasks joins the names with "," and splits on it.   *)

UserIds == {1, 2}
TaskIds == 1 .. (MaxTasks + 1)
Titles == {"Buy milk"}
TagNames == {<<"a">>, <<"a", ",", "b">>}
TagLists == UNION {[1 .. n -> TagNames] : n \in 0 .. MaxTagListLen}
(* the tag lists the edit form sends *)
EditTagLists == {tag_list \in TagLists : Len(tag_list) <= 1}

(* SQL NULL, Python's None, in a TEXT or DATE column *)
Null == "NULL"
(* datetime.date objects, and what strftime("%Y-%m-%d") makes of them *)
Dates == {"date(2026, 1, 2)", "date(2026, 1, 5)"}
strftime(d) == CASE d = "date(2026, 1, 2)" -> "2026-01-02"
                 [] d = "date(2026, 1, 5)" -> "2026-01-05"
(* datetime.strptime(s, '%Y-%m-%d').date(); ValueError leaves None *)
strptime(s) == CASE s = "2026-01-02" -> "date(2026, 1, 2)"
                 [] s = "2026-01-05" -> "date(2026, 1, 5)"
                 [] OTHER -> Null

(* The elements of a list *)
Elems(list) == {list[i] : i \in DOMAIN list}

(* The elements of a set of integers, ascending *)
RECURSIVE Ascending(_)
Ascending(S) ==
    IF S = {} THEN <<>>
    ELSE LET m == CHOOSE x \in S : \A y \in S : x <= y
         IN  <<m>> \o Ascending(S \ {m})

(* INSERT OR IGNORE INTO tags; SELECT id FROM tags; INSERT OR IGNORE INTO    *)
(* task_tags: one round of add_task's loop, on db = [tags, task_tags, seq]. *)
(* UNIQUE(user_id, name) makes the INSERT a no-op for a known name; SQLite  *)
(* moves the AUTOINCREMENT counter on even then.                            *)
LinkTag_PlainInsert(db, task_id, user_id, tag_name) ==
    [tags |-> db.tags \cup
                 {[id |-> db.seq + 1, user_id |-> user_id, name |-> tag_name]},
     seq |-> db.seq + 1,
     task_tags |-> db.task_tags \cup {<<task_id, db.seq + 1>>}]

LinkTag(db, task_id, user_id, tag_name) ==
    LET known == \E g \in db.tags : g.user_id = user_id /\ g.name = tag_name
        tags1 == IF known THEN db.tags
                 ELSE db.tags \cup
                        {[id |-> db.seq + 1, user_id |-> user_id, name |-> tag_name]}
        tag_id == (CHOOSE g \in tags1 : g.user_id = user_id /\ g.name = tag_name).id
    IN  [tags |-> tags1,
         seq |-> db.seq + 1,
         task_tags |-> db.task_tags \cup {<<task_id, tag_id>>}]

(* for tag_name in task_data.get("tags", []) *)
RECURSIVE LinkTags(_, _, _, _)
LinkTags(db, task_id, user_id, names) ==
    IF names = <<>> THEN db
    ELSE LinkTags(LinkTag(db, task_id, user_id, Head(names)),
                  task_id, user_id, Tail(names))

(* INSERT INTO tasks (user_id, title, description, category, due_date,      *)
(* priority): the row add_task makes; completed and created_at take their   *)
(* column defaults.                                                         *)
TaskRow(task_id, user_id, task_data) ==
    [id |-> task_id, user_id |-> user_id, title |-> task_data.title,
     description |-> task_data.description, category |-> task_data.category,
     due_date |-> IF task_data.due_date \in Dates
                  THEN strftime(task_data.due_date)
                  ELSE task_data.due_date,
     priority |-> task_data.priority, completed |-> 0, created_at |-> now]

(* task_data: [title, description, category, due_date, priority, tags].  No *)
(* foreign key is enforced (PRAGMA foreign_keys is off), so any user_id is  *)
(* taken.                                                                   *)
add_task(user_id, task_data) ==
    LET task_id == NextId("tasks")
        db == LinkTags([tags |-> tags, task_tags |-> task_tags,
                        seq |-> sqlite_sequence["tags"]],
                       task_id, user_id, task_data.tags)
    IN  /\ tasks' = tasks \cup {TaskRow(task_id, user_id, task_data)}
        /\ tags' = db.tags
        /\ task_tags' = db.task_tags
        /\ sqlite_sequence' = [sqlite_sequence EXCEPT !["tasks"] = task_id,
                                                      !["tags"] = db.seq]
        /\ Returned("add_task", <<user_id, task_data>>, task_id)

(* SELECT name FROM tags WHERE user_id = ? *)
GetAllTags(user_id) == {g.name : g \in {x \in tags : x.user_id = user_id}}

get_all_tags(user_id) ==
    Returned("get_all_tags", <<user_id>>, GetAllTags(user_id))

(* GROUP_CONCAT(tg.name) over the task's rows of task_tags joined to tags,  *)
(* in tag id order; NULL, here the empty string, when there is none.        *)
RECURSIVE Join(_)
Join(names) ==
    IF names = <<>> THEN <<>>
    ELSE IF Len(names) = 1 THEN Head(names)
    ELSE Head(names) \o <<",">> \o Join(Tail(names))

GroupConcatTags(tagRows, linkRows, task_id) ==
    LET ids == Ascending({tt[2] : tt \in {x \in linkRows : x[1] = task_id}})
        name(i) == (CHOOSE g \in tagRows : g.id = ids[i]).name
    IN  Join([i \in DOMAIN ids |-> name(i)])

(* str.split(",") *)
RECURSIVE Split(_)
Split(str) ==
    IF \A i \in DOMAIN str : str[i] # ","
    THEN <<str>>
    ELSE LET i == CHOOSE k \in DOMAIN str :
                     str[k] = "," /\ \A j \in 1 .. (k - 1) : str[j] # ","
         IN  <<SubSeq(str, 1, i - 1)>> \o Split(SubSeq(str, i + 1, Len(str)))

(* One dictionary of get_tasks, made from a row of tasks *)
TaskDict(tagRows, linkRows, t) ==
    [id |-> t.id, title |-> t.title, description |-> t.description,
     category |-> t.category,
     due_date |-> IF t.due_date \notin {Null, ""} THEN strptime(t.due_date) ELSE Null,
     priority |-> t.priority, completed |-> (t.completed = 1),
     tags |-> LET row7 == GroupConcatTags(tagRows, linkRows, t.id)
              IN  IF row7 # <<>> THEN Split(row7) ELSE <<>>]

(* SELECT ... FROM tasks t LEFT JOIN ... WHERE t.user_id = ? GROUP BY t.id, *)
(* read from the tables given.  The rows come grouped by the INTEGER        *)
(* PRIMARY KEY t.id, which SQLite walks in ascending order.                 *)
GetTasksOf_EveryAccount(taskRows, tagRows, linkRows, user_id) ==
    LET rows == taskRows
        ids == Ascending({t.id : t \in rows})
    IN  [i \in DOMAIN ids |->
            TaskDict(tagRows, linkRows, CHOOSE t \in rows : t.id = ids[i])]

GetTasksOf(taskRows, tagRows, linkRows, user_id) ==
    LET rows == {t \in taskRows : t.user_id = user_id}
        ids == Ascending({t.id : t \in rows})
    IN  [i \in DOMAIN ids |->
            TaskDict(tagRows, linkRows, CHOOSE t \in rows : t.id = ids[i])]

GetTasks(user_id) == GetTasksOf(tasks, tags, task_tags, user_id)

get_tasks(user_id) ==
    Returned("get_tasks", <<user_id>>, GetTasks(user_id))

(* The keys update_task writes: the others are dropped *)
Columns == {"title", "description", "category", "due_date", "priority", "completed"}

SetParts_EveryKey(task_data) == DOMAIN task_data

SetParts(task_data) == DOMAIN task_data \cap Columns

(* isinstance(value, bool): 1 or 0; isinstance(value, date): strftime.  In  *)
(* the model a boolean comes under "completed" and a date under "due_date". *)
SqlValue_CompletedZero(key, value) ==
    IF key = "completed" THEN 0
    ELSE IF key = "due_date" /\ value \in Dates THEN strftime(value)
    ELSE value

SqlValue(key, value) ==
    IF key = "completed" THEN (IF value THEN 1 ELSE 0)
    ELSE IF key = "due_date" /\ value \in Dates THEN strftime(value)
    ELSE value

(* WHERE id = ? AND user_id = ? of update_task *)
UpdateTaskWhere_IdOnly(t, task_id, user_id) == t.id = task_id

UpdateTaskWhere(t, task_id, user_id) == t.id = task_id /\ t.user_id = user_id

(* SET key = ? for the keys of SetParts *)
SetColumns(t, task_data) ==
    LET new(key) == IF key \in SetParts(task_data)
                    THEN SqlValue(key, task_data[key]) ELSE t[key]
    IN  [t EXCEPT !.title = new("title"), !.description = new("description"),
                  !.category = new("category"), !.due_date = new("due_date"),
                  !.priority = new("priority"), !.completed = new("completed")]

update_task(task_id, user_id, task_data) ==
    IF DOMAIN task_data = {} \/ SetParts(task_data) = {}
    THEN /\ Returned("update_task", <<task_id, user_id, task_data>>, FALSE)
         /\ UNCHANGED tasks
    ELSE /\ tasks' = {IF UpdateTaskWhere(t, task_id, user_id)
                      THEN SetColumns(t, task_data) ELSE t : t \in tasks}
         /\ Returned("update_task", <<task_id, user_id, task_data>>, TRUE)

(* WHERE id = ? AND user_id = ? of delete_task *)
DeleteTaskWhere_IdOnly(t, task_id, user_id) == t.id = task_id

DeleteTaskWhere(t, task_id, user_id) == t.id = task_id /\ t.user_id = user_id

(* DELETE FROM tasks ...; return cursor.rowcount > 0 *)
delete_task(task_id, user_id) ==
    LET rows == {t \in tasks : DeleteTaskWhere(t, task_id, user_id)}
    IN  /\ tasks' = tasks \ rows
        /\ deleted_tasks' = deleted_tasks \cup {t.id : t \in rows}
        /\ Returned("delete_task", <<task_id, user_id>>, rows # {})

(* The dictionaries callers pass.  EditForm is what TodoList.edit_task      *)
(* builds; the others are what TodoList.add_task and the completion toggles *)
(* build, and dictionaries with no column of the table in them.             *)
NewTask(title, tag_list) ==
    [title |-> title, description |-> "", category |-> "Other", due_date |-> Null,
     priority |-> "Medium", tags |-> tag_list]

EditForm(title, tag_list) ==
    [title |-> title \o " today", description |-> "soon", category |-> "Work",
     due_date |-> "date(2026, 1, 5)", priority |-> "High", tags |-> tag_list,
     recurrence |-> "None"]

(* The task operations, each call running alone *)
NextTasks ==
    \/ \E user_id \in UserIds, title \in Titles, tag_list \in TagLists :
          /\ NextId("tasks") <= MaxTasks
          /\ add_task(user_id, NewTask(title, tag_list))
          /\ UNCHANGED <<users, password_reset_tokens, now, inflight, reset_ok,
                         session_state,
                         deleted_tasks>>
    \/ \E task_id \in TaskIds, user_id \in UserIds, completed \in BOOLEAN :
          /\ update_task(task_id, user_id, [completed |-> completed])
          /\ UNCHANGED <<users, password_reset_tokens, tags, task_tags,
                         sqlite_sequence, now, inflight, reset_ok, session_state,
                         deleted_tasks>>
    \/ \E task_id \in TaskIds, user_id \in UserIds, title \in Titles,
          tag_list \in EditTagLists :
          /\ update_task(task_id, user_id, EditForm(title, tag_list))
          /\ UNCHANGED <<users, password_reset_tokens, tags, task_tags,
                         sqlite_sequence, now, inflight, reset_ok, session_state,
                         deleted_tasks>>
    \/ \E task_id \in TaskIds, user_id \in UserIds :
          /\ update_task(task_id, user_id, [recurrence |-> "Daily"])
          /\ UNCHANGED <<users, password_reset_tokens, tags, task_tags,
                         sqlite_sequence, now, inflight, reset_ok, session_state,
                         deleted_tasks>>
    \/ \E task_id \in TaskIds, user_id \in UserIds :
          /\ update_task(task_id, user_id, <<>>)
          /\ UNCHANGED <<users, password_reset_tokens, tags, task_tags,
                         sqlite_sequence, now, inflight, reset_ok, session_state,
                         deleted_tasks>>
    \/ \E task_id \in TaskIds, user_id \in UserIds :
          /\ delete_task(task_id, user_id)
          /\ UNCHANGED <<users, password_reset_tokens, tags, task_tags,
                         sqlite_sequence, now, inflight, reset_ok, session_state>>
    \/ \E user_id \in UserIds :
          /\ get_tasks(user_id)
          /\ UNCHANGED <<users, password_reset_tokens, tasks, tags, task_tags,
                         sqlite_sequence, now, inflight, reset_ok, session_state,
                         deleted_tasks>>
    \/ \E user_id \in UserIds :
          /\ get_all_tags(user_id)
          /\ UNCHANGED <<users, password_reset_tokens, tasks, tags, task_tags,
                         sqlite_sequence, now, inflight, reset_ok, session_state,
                         deleted_tasks>>

----------------------------------------------------------------------------
(* The store after init_db on an empty file *)

Init ==
    /\ users = {}
    /\ password_reset_tokens = {}
    /\ tasks = {}
    /\ tags = {}
    /\ task_tags = {}
    /\ sqlite_sequence = [users |-> 0, password_reset_tokens |-> 0,
                          tasks |-> 0, tags |-> 0]
    /\ now = 0
    /\ last = [op |-> "init_db", args |-> <<>>, ret |-> TRUE]
    /\ inflight = [s \in Sessions |-> Idle]
    /\ reset_ok = [token \in TokenStrings |-> 0]
    /\ session_state = FreshSession
    /\ deleted_tasks = {}

(* The account operations, each call running alone *)
NextAuth ==
    \/ \E username \in Strings, email \in Strings, password \in Passwords :
          /\ create_user(username, email, password)
          /\ UNCHANGED <<password_reset_tokens, tasks, tags, task_tags, now,
                         inflight, reset_ok, session_state,
                         deleted_tasks>>
    \/ \E identifier \in Strings, password \in Passwords :
          /\ verify_user(identifier, password)
          /\ UNCHANGED <<users, password_reset_tokens, tasks, tags, task_tags,
                         sqlite_sequence, now, inflight, reset_ok, session_state,
                         deleted_tasks>>
    \/ \E email \in Strings, token \in TokenStrings :
          /\ create_password_reset_token(email, token)
          /\ UNCHANGED <<users, tasks, tags, task_tags, now, inflight, reset_ok,
                         session_state,
                         deleted_tasks>>
    \/ \E token \in TokenStrings :
          /\ verify_reset_token(token)
          /\ UNCHANGED <<users, password_reset_tokens, tasks, tags, task_tags,
                         sqlite_sequence, now, inflight, reset_ok, session_state,
                         deleted_tasks>>
    \/ \E token \in TokenStrings, new_password \in Passwords :
          /\ reset_password(token, new_password)
          /\ UNCHANGED <<tasks, tags, task_tags, sqlite_sequence, now, inflight,
                         session_state,
                         deleted_tasks>>
    \/ Tick

(* The account operations read and write users and password_reset_tokens    *)
(* only, the task operations tasks, tags and task_tags only, so the two     *)
(* halves of the store are checked apart.                                   *)
SpecAuth == Init /\ [][NextAuth]_vars

SpecTasks == Init /\ [][NextTasks]_vars

Next == NextAuth \/ NextTasks

Spec == Init /\ [][Next]_vars

----------------------------------------------------------------------------
(* The task list of a store where one account has registered: Init, then    *)
(* create_user.  Tasks are added and deleted while the clock moves, for the *)
(* registered account 1 and for the id 2, which no account has.             *)

ListTaskIds == 1 .. (MaxListTasks + 1)
(* no tag, the tag "a", or the tag "a,b" *)
ListTagLists == {<<>>, <<<<"a">>>>, <<<<"a", ",", "b">>>>}

InitOneAccount ==
    /\ users = {[id |-> 1, username |-> "ann", email |-> "bob@x.com",
                 password_hash |-> sha256("pw1"), created_at |-> 0]}
    /\ password_reset_tokens = {}
    /\ tasks = {}
    /\ tags = {}
    /\ task_tags = {}
    /\ sqlite_sequence = [users |-> 1, password_reset_tokens |-> 0,
                          tasks |-> 0, tags |-> 0]
    /\ now = 0
    /\ last = [op |-> "create_user", args |-> <<"ann", "bob@x.com", "pw1">>,
               ret |-> TRUE]
    /\ inflight = [s \in Sessions |-> Idle]
    /\ reset_ok = [token \in TokenStrings |-> 0]
    /\ session_state = FreshSession
    /\ deleted_tasks = {}

NextTaskList ==
    \/ \E user_id \in UserIds, title \in Titles, tag_list \in ListTagLists :
          /\ NextId("tasks") <= MaxListTasks
          /\ add_task(user_id, NewTask(title, tag_list))
          /\ UNCHANGED <<users, password_reset_tokens, now, inflight, reset_ok,
                         session_state,
                         deleted_tasks>>
    \/ \E task_id \in ListTaskIds, user_id \in UserIds :
          /\ delete_task(task_id, user_id)
          /\ UNCHANGED <<users, password_reset_tokens, tags, task_tags,
                         sqlite_sequence, now, inflight, reset_ok, session_state>>
    \/ \E user_id \in UserIds :
          /\ get_tasks(user_id)
          /\ UNCHANGED <<users, password_reset_tokens, tasks, tags, task_tags,
                         sqlite_sequence, now, inflight, reset_ok, session_state,
                         deleted_tasks>>
    \/ Tick

SpecTaskList == InitOneAccount /\ [][NextTaskList]_vars

----------------------------------------------------------------------------
(* TodoList.view_tasks: the tasks of get_tasks, filtered by the widgets of   *)
(* the page and sorted by the chosen key, as the page lists them.           *)

(* date(9999, 12, 31) *)
far_future_date == "date(9999, 12, 31)"

(* The order of datetime.date objects: by year, month and day *)
DateOrder(d) == CASE d = "date(2026, 1, 2)" -> 20260102
                  [] d = "date(2026, 1, 5)" -> 20260105
                  [] d = far_future_date -> 99991231

(* priority_map.get(priority, 3) *)
priority_map(priority) == CASE priority = "High" -> 0
                            [] priority = "Medium" -> 1
                            [] priority = "Low" -> 2
                            [] OTHER -> 3

(* str.lower(), and the order of the lowered titles, by code point *)
lower(title) == CASE title = "Buy milk" -> "buy milk"
                  [] OTHER -> title

StrOrder(str) == CASE str = "buy bread" -> 1
                   [] str = "buy milk" -> 2

(* get_sort_key(task).  Under "Due Date" a due date that is not None goes   *)
(* to datetime.strptime(due_date_str, "%Y-%m-%d"): a datetime.date object   *)
(* there raises TypeError, a string that is no date raises ValueError, and  *)
(* both are caught and give far_future_date.                                *)
get_sort_key(task, selected_sort) ==
    IF selected_sort = "Due Date"
    THEN LET due_date_str == task.due_date
         IN  IF due_date_str \notin {Null, ""}
             THEN IF due_date_str \in Dates
                  THEN DateOrder(far_future_date)
                  ELSE IF strptime(due_date_str) = Null
                       THEN DateOrder(far_future_date)
                       ELSE DateOrder(strptime(due_date_str))
             ELSE DateOrder(far_future_date)
    ELSE IF selected_sort = "Priority" THEN priority_map(task.priority)
    ELSE IF selected_sort = "Title" THEN StrOrder(lower(task.title))
    ELSE task.id

(* sorted(filtered_tasks, key=get_sort_key): ascending by key, and stable:  *)
(* tasks of equal key keep the order they had.                              *)
RECURSIVE sorted(_, _)
sorted(list, selected_sort) ==
    IF list = <<>> THEN <<>>
    ELSE LET key(i) == get_sort_key(list[i], selected_sort)
             m == CHOOSE i \in DOMAIN list :
                     /\ \A j \in DOMAIN list : key(i) <= key(j)
                     /\ \A j \in 1 .. (i - 1) : key(j) # key(i)
             rest == [k \in 1 .. (Len(list) - 1) |->
                         IF k < m THEN list[k] ELSE list[k + 1]]
         IN  <<list[m]>> \o sorted(rest, selected_sort)

(* categories: "All" and the categories of the tasks *)
Categories(task_list) ==
    {"All"} \cup {task.category : task \in {x \in Elems(task_list) : x.category # Null}}

(* The list view_tasks passes to display_task, one task after the other;    *)
(* with no task at all it returns before the widgets and shows nothing.     *)
view_tasks(user_id, selected_category, selected_priority, selected_status, selected_sort) ==
    LET all_tasks == GetTasks(user_id)
        Keep(task) ==
            /\ selected_category # "All" => task.category = selected_category
            /\ selected_priority # "All" => task.priority = selected_priority
            /\ selected_status = "Active" => ~task.completed
            /\ selected_status = "Completed" => task.completed
        filtered_tasks == SelectSeq(all_tasks, Keep)
    IN  /\ selected_category \in Categories(all_tasks)
        /\ Returned("view_tasks",
                    <<user_id, selected_category, selected_priority,
                      selected_status, selected_sort>>,
                    IF all_tasks = <<>> THEN <<>>
                    ELSE sorted(filtered_tasks, selected_sort))

ViewTaskIds == 1 .. MaxViewTasks
ViewTitles == {"Buy milk", "buy bread"}
(* no due date, a date, or a string that is no date *)
ViewDueDates == {Null, "someday"} \cup Dates
ViewPriorities == {"High", "Low"}
priorities == {"All", "High"}
statuses == {"All", "Active", "Completed"}
sort_options == {"Due Date", "Priority", "Title"}

ViewTask(title, due_date, priority) ==
    [title |-> title, description |-> "", category |-> "Other",
     due_date |-> due_date, priority |-> priority, tags |-> <<>>]

(* Account 1 adds tasks, completes and reopens them, and looks at the page *)
NextView ==
    \/ \E title \in ViewTitles, due_date \in ViewDueDates,
          priority \in ViewPriorities :
          /\ NextId("tasks") <= MaxViewTasks
          /\ add_task(1, ViewTask(title, due_date, priority))
          /\ UNCHANGED <<users, password_reset_tokens, now, inflight, reset_ok,
                         session_state, deleted_tasks>>
    \/ \E task_id \in ViewTaskIds, completed \in BOOLEAN :
          /\ update_task(task_id, 1, [completed |-> completed])
          /\ UNCHANGED <<users, password_reset_tokens, tags, task_tags,
                         sqlite_sequence, now, inflight, reset_ok, session_state,
                         deleted_tasks>>
    \/ \E selected_category \in {"All", "Other"}, selected_priority \in priorities,
          selected_status \in statuses, selected_sort \in sort_options :
          /\ view_tasks(1, selected_category, selected_priority, selected_status,
                        selected_sort)
          /\ UNCHANGED <<users, password_reset_tokens, tasks, tags, task_tags,
                         sqlite_sequence, now, inflight, reset_ok, session_state,
                         deleted_tasks>>

SpecView == InitOneAccount /\ [][NextView]_vars

----------------------------------------------------------------------------
(* reset_password called from several sessions at once.  A call reads the   *)
(* token through verify_reset_token, on a connection of its own, and only   *)
(* then writes: the two UPDATEs and the commit are one SQLite transaction,  *)
(* which other connections see whole or not at all, but nothing holds the   *)
(* database between the read and the first UPDATE.                          *)

(* user_id = self.verify_reset_token(token); if not user_id: return False *)
reset_password_validate(s, token, new_password) ==
    LET user_id == VerifyResetToken(password_reset_tokens, token, now)
    IN  /\ inflight[s].pc = "idle"
        /\ IF user_id = NoId
           THEN /\ Returned("reset_password", <<token, new_password>>, FALSE)
                /\ UNCHANGED inflight
           ELSE /\ inflight' = [inflight EXCEPT ![s] =
                                   [pc |-> "validated", token |-> token,
                                    new_password |-> new_password, user_id |-> user_id]]
                /\ Returned("reset_password:validated", <<token, new_password>>, user_id)
        /\ UNCHANGED <<users, password_reset_tokens, reset_ok>>

(* UPDATE users ...; UPDATE password_reset_tokens ...; conn.commit(); return True *)
reset_password_commit(s) ==
    LET call == inflight[s]
    IN  /\ call.pc = "validated"
        /\ users' = SetPassword(users, call.user_id, call.new_password)
        /\ password_reset_tokens' = MarkUsed(password_reset_tokens, call.token)
        /\ reset_ok' = [reset_ok EXCEPT ![call.token] = @ + 1]
        /\ inflight' = [inflight EXCEPT ![s] = Idle]
        /\ Returned("reset_password", <<call.token, call.new_password>>, TRUE)

(* The store once an account has registered and asked for a reset link:    *)
(* Init, then create_user and create_password_reset_token.                  *)
InitResetRace ==
    \E username \in Strings, email \in Strings, password \in Passwords,
       token \in TokenStrings :
       /\ users = {[id |-> 1, username |-> username, email |-> email,
                    password_hash |-> sha256(password), created_at |-> 0]}
       /\ password_reset_tokens = {[id |-> 1, user_id |-> 1, token |-> token,
                                    expires_at |-> ExpiresAt(0), used |-> FALSE]}
       /\ tasks = {}
       /\ tags = {}
       /\ task_tags = {}
       /\ sqlite_sequence = [users |-> 1, password_reset_tokens |-> 1,
                             tasks |-> 0, tags |-> 0]
       /\ now = 0
       /\ last = [op |-> "create_password_reset_token", args |-> <<email>>,
                  ret |-> token]
       /\ inflight = [s \in Sessions |-> Idle]
       /\ reset_ok = [t \in TokenStrings |-> 0]
       /\ session_state = FreshSession
       /\ deleted_tasks = {}

NextResetRace ==
    \/ \E email \in Strings, token \in TokenStrings :
          /\ create_password_reset_token(email, token)
          /\ UNCHANGED <<users, tasks, tags, task_tags, now, inflight, reset_ok,
                         session_state,
                         deleted_tasks>>
    \/ \E s \in Sessions, token \in TokenStrings, new_password \in Passwords :
          /\ reset_password_validate(s, token, new_password)
          /\ UNCHANGED <<tasks, tags, task_tags, sqlite_sequence, now, session_state,
                         deleted_tasks>>
    \/ \E s \in Sessions :
          /\ reset_password_commit(s)
          /\ UNCHANGED <<tasks, tags, task_tags, sqlite_sequence, now, session_state,
                         deleted_tasks>>
    \/ Tick

SpecResetRace == InitResetRace /\ [][NextResetRace]_vars

----------------------------------------------------------------------------
(* The presentation layer (src/todo_app_streamlit.py) in one browser        *)
(* session: the handlers of main, login_page and TodoList, each with the    *)
(* store calls it makes and what it writes to st.session_state.             *)

(* what the user types in a title field, and in the edit form's tags field *)
FormTitles == {"", "Buy bread"}
FormTagTexts == {<<>>, <<"b">>, <<"a", ",", " ", "b">>}
(* what the user types in the sidebar's Add New Tag field *)
NewTagTexts == {<<>>} \cup TagNames

(* str.strip() *)
RECURSIVE LStrip(_)
LStrip(str) ==
    IF str # <<>> /\ Head(str) = " " THEN LStrip(Tail(str)) ELSE str

RECURSIVE RStrip(_)
RStrip(str) ==
    IF str # <<>> /\ str[Len(str)] = " "
    THEN RStrip(SubSeq(str, 1, Len(str) - 1)) ELSE str

Strip(str) == LStrip(RStrip(str))

(* [tag.strip() for tag in new_tags.split(",")] if new_tags else [] *)
FormTags(new_tags) ==
    IF new_tags = <<>> THEN <<>>
    ELSE LET parts == Split(new_tags)
         IN  [i \in DOMAIN parts |-> Strip(parts[i])]

(* The tasks view_tasks displays come from db.get_tasks(user_id). *)
DisplayedIds == {d.id : d \in Elems(GetTasks(session_state.user_id))}

(* for task in st.session_state.tasks: if task['id'] == task_id:            *)
(*     task['completed'] = new_status; break                                *)
SetCompletedInSession(list, task_id, new_status) ==
    LET hits == {i \in DOMAIN list : list[i].id = task_id}
    IN  IF hits = {} THEN list
        ELSE LET first == CHOOSE i \in hits : \A j \in hits : i <= j
             IN  [list EXCEPT ![first] = [@ EXCEPT !.completed = new_status]]

(* login_page's Login button, st.rerun(), and the TodoList(...) main then   *)
(* builds, which fills st.session_state.tags when the key is not there.     *)
LoginButton(identifier, password) ==
    /\ ~session_state.authenticated
    /\ verify_user(identifier, password)
    /\ session_state' =
          IF last'.ret = NoId THEN session_state
          ELSE [session_state EXCEPT
                  !.authenticated = TRUE,
                  !.user_id = last'.ret,
                  !.has_tags = TRUE,
                  !.tags = IF session_state.has_tags THEN session_state.tags
                           ELSE GetAllTags(last'.ret)]
    /\ UNCHANGED <<users, password_reset_tokens, tasks, tags, task_tags,
                   sqlite_sequence, now, inflight, reset_ok,
                         deleted_tasks>>

(* main's Logout button: the keys tasks and tags stay in the session. *)
LogoutButton ==
    /\ session_state.authenticated
    /\ session_state' = [session_state EXCEPT !.authenticated = FALSE,
                                               !.user_id = NoId]
    /\ Returned("logout", <<>>, TRUE)
    /\ UNCHANGED <<users, password_reset_tokens, tasks, tags, task_tags,
                   sqlite_sequence, now, inflight, reset_ok,
                         deleted_tasks>>

(* the dictionary TodoList.add_task builds from the sidebar's fields *)
SidebarTask(title, tag_list) ==
    [title |-> title, description |-> "", category |-> "Other",
     due_date |-> "date(2026, 1, 5)", priority |-> "Medium", tags |-> tag_list,
     recurrence |-> "None", completed |-> FALSE]

(* main's Add Task button and TodoList.add_task *)
AddTaskButton(title, selected, new_tag) ==
    LET tag_list == IF new_tag # <<>> THEN Append(selected, new_tag) ELSE selected
        user_id == session_state.user_id
    IN  /\ session_state.authenticated
        /\ IF title # ""
           THEN /\ add_task(user_id, SidebarTask(title, tag_list))
                /\ session_state' =
                      [session_state EXCEPT
                         !.tags = @ \cup Elems(tag_list),
                         !.tasks = GetTasksOf(tasks', tags', task_tags', user_id)]
           ELSE /\ Returned("Add Task", <<title, tag_list>>, "Task title is required!")
                /\ UNCHANGED <<tasks, tags, task_tags, sqlite_sequence, session_state>>
        /\ UNCHANGED <<users, password_reset_tokens, now, inflight, reset_ok,
                         deleted_tasks>>

(* the dictionary TodoList.edit_task builds from the edit form's fields *)
EditFormTask(new_title, tag_list) ==
    [title |-> new_title, description |-> "soon", category |-> "Work",
     due_date |-> "date(2026, 1, 5)", priority |-> "High", tags |-> tag_list,
     recurrence |-> "None"]

(* show_edit_form's Update Task button and TodoList.edit_task *)
EditFormSubmit(task_id, new_title, new_tags) ==
    LET tag_list == FormTags(new_tags)
        user_id == session_state.user_id
    IN  /\ session_state.authenticated
        /\ task_id \in DisplayedIds
        /\ update_task(task_id, user_id, EditFormTask(new_title, tag_list))
        /\ session_state' =
              [session_state EXCEPT
                 !.tags = IF last'.ret THEN @ \cup Elems(tag_list) ELSE @,
                 !.tasks = GetTasksOf(tasks', tags, task_tags, user_id)]
        /\ UNCHANGED <<users, password_reset_tokens, tags, task_tags,
                       sqlite_sequence, now, inflight, reset_ok,
                         deleted_tasks>>

(* the checkbox of display_task: TodoList.toggle_task_completion *)
ToggleTaskCompletion(task_id) ==
    LET user_id == session_state.user_id
        current_status == \E d \in Elems(GetTasks(user_id)) :
                             d.id = task_id /\ d.completed
    IN  /\ session_state.authenticated
        /\ task_id \in DisplayedIds
        /\ update_task(task_id, user_id, [completed |-> ~current_status])
        /\ session_state' =
              IF last'.ret
              THEN [session_state EXCEPT
                      !.tasks = SetCompletedInSession(@, task_id, ~current_status)]
              ELSE session_state
        /\ UNCHANGED <<users, password_reset_tokens, tags, task_tags,
                       sqlite_sequence, now, inflight, reset_ok,
                         deleted_tasks>>

(* TodoList.mark_completed, which no widget calls *)
MarkCompleted(task_id) ==
    LET user_id == session_state.user_id
    IN  /\ session_state.authenticated
        /\ IF \E i \in DOMAIN session_state.tasks : session_state.tasks[i].id = task_id
           THEN /\ update_task(task_id, user_id, [completed |-> TRUE])
                /\ session_state' =
                      IF last'.ret
                      THEN [session_state EXCEPT
                              !.tasks = SetCompletedInSession(@, task_id, TRUE)]
                      ELSE session_state
           ELSE /\ Returned("mark_completed", <<task_id>>, FALSE)
                /\ UNCHANGED <<tasks, session_state>>
        /\ UNCHANGED <<users, password_reset_tokens, tags, task_tags,
                       sqlite_sequence, now, inflight, reset_ok,
                         deleted_tasks>>

(* the delete button of display_task: TodoList.delete_task *)
DeleteButton(task_id) ==
    LET user_id == session_state.user_id
    IN  /\ session_state.authenticated
        /\ task_id \in DisplayedIds
        /\ delete_task(task_id, user_id)
        /\ session_state' =
              IF last'.ret
              THEN [session_state EXCEPT
                      !.tasks = GetTasksOf(tasks', tags, task_tags, user_id)]
              ELSE session_state
        /\ UNCHANGED <<users, password_reset_tokens, tags, task_tags,
                       sqlite_sequence, now, inflight, reset_ok>>

UITaskIds == 1 .. MaxUITasks

(* what is typed into the login form's first field *)
LoginIdentifiers == Strings \cup {"cat"}

(* The store when the application is opened in a new browser session: two   *)
(* accounts have registered, and account 1 has added a task with the tag    *)
(* "a" in an earlier session.                                               *)
InitUI ==
    /\ now = 0
    /\ users = {[id |-> 1, username |-> "ann", email |-> "bob@x.com",
                 password_hash |-> sha256("pw1"), created_at |-> 0],
                [id |-> 2, username |-> "cat", email |-> "cat@x.com",
                 password_hash |-> sha256("pw2"), created_at |-> 0]}
    /\ password_reset_tokens = {}
    /\ tasks = {TaskRow(1, 1, SidebarTask("Buy milk", <<<<"a">>>>))}
    /\ tags = {[id |-> 1, user_id |-> 1, name |-> <<"a">>]}
    /\ task_tags = {<<1, 1>>}
    /\ sqlite_sequence = [users |-> 2, password_reset_tokens |-> 0,
                          tasks |-> 1, tags |-> 1]
    /\ last = [op |-> "add_task",
               args |-> <<1, SidebarTask("Buy milk", <<<<"a">>>>)>>, ret |-> 1]
    /\ inflight = [s \in Sessions |-> Idle]
    /\ reset_ok = [token \in TokenStrings |-> 0]
    /\ session_state = FreshSession
    /\ deleted_tasks = {}

NextUI ==
    \/ \E identifier \in LoginIdentifiers, password \in Passwords :
          LoginButton(identifier, password)
    \/ LogoutButton
    \/ \E title \in FormTitles, new_tag \in NewTagTexts,
          selected \in {<<>>} \cup {<<g>> : g \in session_state.tags} :
          /\ NextId("tasks") <= MaxUITasks
          /\ AddTaskButton(title, selected, new_tag)
    \/ \E task_id \in UITaskIds, new_title \in FormTitles, new_tags \in FormTagTexts :
          EditFormSubmit(task_id, new_title, new_tags)
    \/ \E task_id \in UITaskIds : ToggleTaskCompletion(task_id)
    \/ \E task_id \in UITaskIds : MarkCompleted(task_id)
    \/ \E task_id \in UITaskIds : DeleteButton(task_id)

SpecUI == InitUI /\ [][NextUI]_vars

----------------------------------------------------------------------------
(* add_task called from several sessions at once.  Each call has its own    *)
(* connection.  Its first INSERT takes SQLite's write lock, held until      *)
(* conn.commit(); what it writes is in its own view of the tables until     *)
(* then, and other connections read the committed tables.  A call whose     *)
(* INSERT finds the lock taken waits for it, and raises OperationalError    *)
(* (database is locked) when the wait times out.                            *)

WriteLockFree == \A s \in Sessions : inflight[s].pc # "adding"

(* cursor.execute(INSERT INTO tasks ...); task_id = cursor.lastrowid *)
add_task_insert(s, user_id, task_data) ==
    /\ inflight[s].pc = "idle"
    /\ WriteLockFree
    /\ inflight' = [inflight EXCEPT ![s] =
                       [pc |-> "adding", user_id |-> user_id, task_data |-> task_data,
                        row |-> TaskRow(NextId("tasks"), user_id, task_data),
                        names |-> task_data.tags,
                        db |-> [tags |-> tags, task_tags |-> task_tags,
                                seq |-> sqlite_sequence["tags"]]]]
    /\ Returned("add_task:insert", <<user_id, task_data>>, NextId("tasks"))
    /\ UNCHANGED <<tasks, tags, task_tags, sqlite_sequence>>

(* the INSERT of a call that finds the write lock taken until its timeout *)
add_task_locked(s, user_id, task_data) ==
    /\ inflight[s].pc = "idle"
    /\ ~WriteLockFree
    /\ Returned("add_task:locked", <<user_id, task_data>>, "OperationalError")
    /\ UNCHANGED <<tasks, tags, task_tags, sqlite_sequence, inflight>>

(* one round of for tag_name in task_data.get("tags", []) *)
add_task_link(s) ==
    LET call == inflight[s]
    IN  /\ call.pc = "adding"
        /\ call.names # <<>>
        /\ inflight' = [inflight EXCEPT ![s] =
                           [call EXCEPT !.names = Tail(call.names),
                                        !.db = LinkTag(call.db, call.row.id,
                                                       call.user_id, Head(call.names))]]
        /\ Returned("add_task:link", <<call.user_id, call.task_data>>, call.row.id)
        /\ UNCHANGED <<tasks, tags, task_tags, sqlite_sequence>>

(* conn.commit(); return task_id *)
add_task_commit(s) ==
    LET call == inflight[s]
    IN  /\ call.pc = "adding"
        /\ call.names = <<>>
        /\ tasks' = tasks \cup {call.row}
        /\ tags' = call.db.tags
        /\ task_tags' = call.db.task_tags
        /\ sqlite_sequence' = [sqlite_sequence EXCEPT !["tasks"] = call.row.id,
                                                      !["tags"] = call.db.seq]
        /\ inflight' = [inflight EXCEPT ![s] = Idle]
        /\ Returned("add_task", <<call.user_id, call.task_data>>, call.row.id)

NextAddRace ==
    \/ \E s \in Sessions, user_id \in UserIds, title \in Titles,
          tag_list \in TagLists :
          /\ NextId("tasks") <= MaxRaceTasks
          /\ add_task_insert(s, user_id, NewTask(title, tag_list))
          /\ UNCHANGED <<users, password_reset_tokens, now, reset_ok, session_state,
                         deleted_tasks>>
    \/ \E s \in Sessions, user_id \in UserIds, title \in Titles,
          tag_list \in TagLists :
          /\ add_task_locked(s, user_id, NewTask(title, tag_list))
          /\ UNCHANGED <<users, password_reset_tokens, now, reset_ok, session_state,
                         deleted_tasks>>
    \/ \E s \in Sessions :
          /\ add_task_link(s)
          /\ UNCHANGED <<users, password_reset_tokens, now, reset_ok, session_state,
                         deleted_tasks>>
    \/ \E s \in Sessions :
          /\ add_task_commit(s)
          /\ UNCHANGED <<users, password_reset_tokens, now, reset_ok, session_state,
                         deleted_tasks>>
    \/ \E user_id \in UserIds :
          /\ get_all_tags(user_id)
          /\ UNCHANGED <<users, password_reset_tokens, tasks, tags, task_tags,
                         sqlite_sequence, now, inflight, reset_ok, session_state,
                         deleted_tasks>>
    \/ \E task_id \in TaskIds, user_id \in UserIds :
          /\ delete_task(task_id, user_id)
          /\ WriteLockFree
          /\ UNCHANGED <<users, password_reset_tokens, tags, task_tags,
                         sqlite_sequence, now, inflight, reset_ok, session_state>>

SpecAddRace == InitOneAccount /\ [][NextAddRace]_vars

(* Two rows of a tags table are one row, or differ in account or in name. *)
OneRowPerAccountAndName(tagRows) ==
    \A g1, g2 \in tagRows :
       (g1.user_id = g2.user_id /\ g1.name = g2.name) => g1 = g2

(* C13: in every reachable state, also with add_task calls of several      *)
(* sessions under way that name the same new tag, the tags table holds at   *)
(* most one row per (account, tag name), in the committed table and in the  *)
(* view of every call under way.                                            *)
C13_OneTagRowPerAccountAndName ==
    /\ OneRowPerAccountAndName(tags)
    /\ \A s \in Sessions :
          inflight[s].pc = "adding" => OneRowPerAccountAndName(inflight[s].db.tags)

(* C13's case: an add_task has just committed whose INSERT OR IGNORE found  *)
(* the tag name already there, put by the add_task of an earlier call, and  *)
(* two tasks are linked to the one row.                                     *)
C13_Witness ==
    /\ last.op = "add_task"
    /\ last.args[2].tags # <<>>
    /\ sqlite_sequence["tags"] > Cardinality(tags)
    /\ \E g \in tags, t1, t2 \in tasks :
          /\ g.user_id = last.args[1]
          /\ g.name = last.args[2].tags[1]
          /\ t1.id # t2.id
          /\ <<t1.id, g.id>> \in task_tags
          /\ <<t2.id, g.id>> \in task_tags

(* C2: of the reset_password calls that several sessions make with one      *)
(* token, at most one returns true.  Stated as the claim; the code lets     *)
(* two calls both pass the token check before either marks the token used.  *)
C2_AtMostOneResetPerToken ==
    \A token \in TokenStrings : reset_ok[token] <= 1

----------------------------------------------------------------------------
(* Claims about accounts and reset tokens, checked under SpecAuth.  In      *)
(* every state last is the call that led to it, so a state predicate on     *)
(* last speaks of the state right after that call.                          *)

(* C1: a reset token is valid exactly once: a reset_password call with a    *)
(* token that an earlier call consumed returns false and changes nothing,   *)
(* and right after reset_password(token, pw) returned true, verify_user     *)
(* with the owner's username, or email, and pw can only return the owner's  *)
(* id.  Stated as the claim; the code violates the verify_user part.        *)
C1_TokenValidExactlyOnce ==
    [][ last'.op = "reset_password" =>
          /\ reset_ok[last'.args[1]] > 0 =>
                /\ last'.ret = FALSE
                /\ users' = users
                /\ password_reset_tokens' = password_reset_tokens
          /\ last'.ret = TRUE =>
                \A t \in password_reset_tokens' : t.token = last'.args[1] =>
                   \A u \in users' : u.id = t.user_id =>
                      /\ VerifyUserRows(users', u.username, last'.args[2]) = {u}
                      /\ VerifyUserRows(users', u.email, last'.args[2]) = {u} ]_vars

(* C3: verify_reset_token(token) returns the owner's id exactly when a      *)
(* stored row has that token, used = FALSE and expires_at > now, and no id  *)
(* otherwise; a token just issued expires 24 hours after the clock value    *)
(* of its issue.                                                            *)
C3_VerifyResetTokenIffValid ==
    /\ last.op = "verify_reset_token" =>
          LET valid == {t \in password_reset_tokens :
                           /\ t.token = last.args[1]
                           /\ t.used = FALSE
                           /\ t.expires_at > now}
          IN  /\ (last.ret # NoId) <=> (valid # {})
              /\ \A t \in valid : last.ret = t.user_id
    /\ (last.op = "create_password_reset_token" /\ last.ret \in TokenStrings) =>
          \E t \in password_reset_tokens :
             /\ t.token = last.ret
             /\ t.expires_at = now + TokenValidHours
             /\ t.used = FALSE

(* C3's case: verify_reset_token has just returned the owner of a token. *)
C3_Witness ==
    /\ last.op = "verify_reset_token"
    /\ last.ret # NoId
    /\ \E t \in password_reset_tokens : t.token = last.args[1] /\ t.user_id = last.ret

(* C9: create_user returns false when the username exists, and when the     *)
(* email exists under another username; a create_user that returned false  *)
(* leaves the accounts as they were.                                        *)
C9_CreateUserConflict ==
    [][ last'.op = "create_user" =>
          /\ (\E u \in users : u.username = last'.args[1]) => last'.ret = FALSE
          /\ (\E u \in users : u.email = last'.args[2] /\ u.username # last'.args[1])
                => last'.ret = FALSE
          /\ last'.ret = FALSE => users' = users ]_vars

(* C9's case: create_user has just failed on an email that another          *)
(* username holds, the username itself being free.                          *)
C9_Witness ==
    /\ last.op = "create_user"
    /\ last.ret = FALSE
    /\ \E u \in users : u.email = last.args[2]
    /\ \A u \in users : u.username # last.args[1]

(* C10: verify_user returns the id of the account whose username, or whose  *)
(* email, is the identifier and whose current password is the one given;    *)
(* it returns no id when the password is not the current password of an     *)
(* account the identifier names, and no id for an unknown identifier.       *)
(* Stated as the claim; the code violates it.                               *)
C10_VerifyUserReturnsTheAccount ==
    last.op = "verify_user" =>
       LET identifier == last.args[1]
           password == last.args[2]
           named == {u \in users : u.username = identifier \/ u.email = identifier}
       IN  /\ \A u \in named : u.password_hash = sha256(password) => last.ret = u.id
           /\ (\E u \in named : u.password_hash # sha256(password)) => last.ret = NoId
           /\ named = {} => last.ret = NoId

(* C18: an account once created stays, with the same id, username, email   *)
(* and created_at, and a step changes its password hash only if the step    *)
(* is a reset_password call that returned true for a token the account      *)
(* owns.                                                                    *)
C18_AccountsKeptAsCreated ==
    [][ /\ \A u \in users :
             \E v \in users' :
                /\ v.id = u.id
                /\ v.username = u.username
                /\ v.email = u.email
                /\ v.created_at = u.created_at
                /\ v.password_hash # u.password_hash =>
                      /\ last'.op = "reset_password"
                      /\ last'.ret = TRUE
                      /\ \E t \in password_reset_tokens :
                            t.token = last'.args[1] /\ t.user_id = u.id
        /\ \A v1, v2 \in users' : v1.id = v2.id => v1 = v2 ]_vars

(* C18's case: reset_password has just set the password of the token's      *)
(* owner while another account, with another password, exists.              *)
C18_Witness ==
    /\ last.op = "reset_password"
    /\ last.ret = TRUE
    /\ \E t \in password_reset_tokens, u, w \in users :
          /\ t.token = last.args[1]
          /\ u.id = t.user_id
          /\ u.password_hash = sha256(last.args[2])
          /\ w.id # u.id
          /\ w.password_hash # u.password_hash

(* C23: an identifier never names two accounts: no account's username is    *)
(* another account's email, so for every identifier and password at most    *)
(* one row satisfies verify_user's query.  Stated as the claim; create_user *)
(* checks the two columns apart.                                            *)
C23_IdentifierNamesOneAccount ==
    /\ \A u, w \in users : u.id # w.id => u.username # w.email
    /\ \A identifier \in Strings, password \in Passwords :
          Cardinality(VerifyUserRows(users, identifier, password)) <= 1

(* C25: a reset_password that returned true marks the presented token only: *)
(* every other token row is as it was and verify_reset_token answers for it *)
(* as before; create_password_reset_token leaves the earlier rows as they   *)
(* were; and reset_password with a token that is unused and unexpired       *)
(* returns true, whatever other tokens the account holds or has used.       *)
C25_OnlyPresentedTokenMarked ==
    [][ /\ (last'.op = "reset_password" /\ last'.ret = TRUE) =>
             \A t \in password_reset_tokens :
                t.token # last'.args[1] =>
                   /\ t \in password_reset_tokens'
                   /\ VerifyResetToken(password_reset_tokens', t.token, now')
                         = VerifyResetToken(password_reset_tokens, t.token, now)
        /\ last'.op = "create_password_reset_token" =>
             password_reset_tokens \subseteq password_reset_tokens'
        /\ last'.op = "reset_password" =>
             ((\E t \in password_reset_tokens :
                  /\ t.token = last'.args[1]
                  /\ t.used = FALSE
                  /\ t.expires_at > now) => last'.ret = TRUE) ]_vars

(* C25's case: reset_password has just returned true for one token of an    *)
(* account that holds another token, still unused and unexpired.            *)
C25_Witness ==
    /\ last.op = "reset_password"
    /\ last.ret = TRUE
    /\ \E t1, t2 \in password_reset_tokens :
          /\ t1.token = last.args[1]
          /\ t1.used = TRUE
          /\ t2.token # t1.token
          /\ t2.user_id = t1.user_id
          /\ t2.used = FALSE
          /\ t2.expires_at > now

----------------------------------------------------------------------------
(* Claims about tasks and tags, checked under SpecTasks *)

(* The account on whose behalf the call last was made *)
Caller(call) ==
    IF call.op \in {"update_task", "delete_task"} THEN call.args[2] ELSE call.args[1]

TaskMatches(task_id, user_id) ==
    \E t \in tasks : t.id = task_id /\ t.user_id = user_id

(* C4: update_task and delete_task called with account id a, and every      *)
(* other task operation made for a, whatever task id is passed, leave       *)
(* get_tasks(b) of every other account b as it was: the same tasks with     *)
(* the same field values.                                                   *)
C4_OtherAccountsTasksUntouched ==
    [][ last'.op \in {"add_task", "update_task", "delete_task",
                      "get_tasks", "get_all_tags"} =>
          \A b \in UserIds \ {Caller(last')} :
             GetTasksOf(tasks', tags', task_tags', b) = GetTasks(b) ]_vars

(* C4's case: update_task has just been called by an account with the id of *)
(* a task that another account owns.                                        *)
C4_Witness ==
    /\ last.op = "update_task"
    /\ last.ret = TRUE
    /\ \E t \in tasks : t.id = last.args[1] /\ t.user_id # last.args[2]

(* C5: after update_task with a tag list T2 for a task of the account, the  *)
(* task's tag set in get_tasks is exactly T2.  Stated as the claim; the     *)
(* code drops the key "tags".                                               *)
C5_UpdateReplacesTags ==
    (/\ last.op = "update_task"
     /\ "tags" \in DOMAIN last.args[3]
     /\ TaskMatches(last.args[1], last.args[2])) =>
       \A d \in Elems(GetTasks(last.args[2])) :
          d.id = last.args[1] => Elems(d.tags) = Elems(last.args[3].tags)

(* C6: update_task returns true if a row matching (task_id, account_id) was *)
(* updated and false if no task matches (task_id, account_id).  Stated as   *)
(* the claim; the code returns true without looking at the row count.       *)
C6_UpdateReturnsWhetherMatched ==
    last.op = "update_task" =>
       /\ (TaskMatches(last.args[1], last.args[2]) /\ SetParts(last.args[3]) # {})
             => last.ret = TRUE
       /\ ~TaskMatches(last.args[1], last.args[2]) => last.ret = FALSE

(* C7: every row of task_tags refers to an existing task, and after a       *)
(* delete_task(t, a) that returned true the task is not in get_tasks(a) and *)
(* no row of task_tags has task_id = t.  Stated as the claim; the code      *)
(* deletes the row of tasks only.                                           *)
C7_NoDanglingTaskTags ==
    /\ \A tt \in task_tags : \E t \in tasks : t.id = tt[1]
    /\ (last.op = "delete_task" /\ last.ret = TRUE) =>
          /\ \A d \in Elems(GetTasks(last.args[2])) : d.id # last.args[1]
          /\ \A tt \in task_tags : tt[1] # last.args[1]

(* C8: after add_task(account, {title, tags: T}), get_tasks(account) holds  *)
(* the new task with a tag set equal to the set of elements of T, and       *)
(* get_all_tags(account) contains every element of T.  Stated as the claim; *)
(* the code's GROUP_CONCAT and split(",") do not give back a name that      *)
(* holds a comma.                                                           *)
C8_AddTaskTagsRoundTrip ==
    last.op = "add_task" =>
       /\ \E d \in Elems(GetTasks(last.args[1])) :
             d.id = last.ret /\ Elems(d.tags) = Elems(last.args[2].tags)
       /\ Elems(last.args[2].tags) \subseteq GetAllTags(last.args[1])

(* C11: delete_task with a task id that does not exist, was deleted before  *)
(* or belongs to another account returns false and leaves tasks, tags and   *)
(* task_tags as they were; the same delete_task made again right after one  *)
(* that returned true returns false.                                        *)
C11_DeleteTaskNoMatch ==
    [][ last'.op = "delete_task" =>
          /\ ~TaskMatches(last'.args[1], last'.args[2]) =>
                /\ last'.ret = FALSE
                /\ tasks' = tasks
                /\ tags' = tags
                /\ task_tags' = task_tags
          /\ (last.op = "delete_task" /\ last.ret = TRUE /\ last'.args = last.args)
                => last'.ret = FALSE ]_vars

(* C11's case: delete_task has just returned false for the id of a task     *)
(* that was created and is no longer there.                                 *)
C11_Witness ==
    /\ last.op = "delete_task"
    /\ last.ret = FALSE
    /\ last.args[1] <= sqlite_sequence["tasks"]
    /\ \A t \in tasks : t.id # last.args[1]

UsedTagNames(user_id) ==
    {g.name : g \in {x \in tags :
                       /\ x.user_id = user_id
                       /\ \E t \in tasks : /\ t.user_id = user_id
                                           /\ <<t.id, x.id>> \in task_tags}}

(* C14: get_all_tags(account) returns exactly the tag names linked to at    *)
(* least one existing task of the account.  Stated as the claim; the code   *)
(* returns every tag row of the account, and no operation deletes one.      *)
C14_GetAllTagsExactlyUsed ==
    last.op = "get_all_tags" => last.ret = UsedTagNames(last.args[1])

(* The field names the claim calls recognized *)
Recognized == {"title", "description", "category", "due_date", "priority", "completed"}

(* C17: update_task drops unrecognized field names.  With a map that mixes  *)
(* recognized and unrecognized fields, called on a task of the account, the *)
(* call returns true and get_tasks shows the recognized fields with the     *)
(* values given; with an empty map, or a map of unrecognized fields only,   *)
(* the call returns false and the tables are as they were.                  *)
C17_UnrecognizedFieldsDropped ==
    [][ last'.op = "update_task" =>
          LET task_data == last'.args[3]
              given == DOMAIN task_data \cap Recognized
          IN  /\ given = {} =>
                    /\ last'.ret = FALSE
                    /\ tasks' = tasks
                    /\ tags' = tags
                    /\ task_tags' = task_tags
              /\ (/\ given # {}
                  /\ DOMAIN task_data \ Recognized # {}
                  /\ TaskMatches(last'.args[1], last'.args[2])) =>
                    /\ last'.ret = TRUE
                    /\ \E d \in Elems(GetTasksOf(tasks', tags', task_tags',
                                                last'.args[2])) :
                          /\ d.id = last'.args[1]
                          /\ \A key \in given : d[key] = task_data[key] ]_vars

(* C17's case: update_task has just applied the recognized fields of a map  *)
(* that also holds unrecognized ones.                                       *)
C17_Witness ==
    /\ last.op = "update_task"
    /\ last.ret = TRUE
    /\ DOMAIN last.args[3] \cap Recognized # {}
    /\ DOMAIN last.args[3] \ Recognized # {}
    /\ \E t \in tasks : /\ t.id = last.args[1]
                        /\ t.user_id = last.args[2]
                        /\ t.title = last.args[3].title

----------------------------------------------------------------------------
(* Claims about the task list, checked under SpecTaskList *)

(* C15: add_task called with an account id that no account has fails and    *)
(* creates no task, no tag and no task_tags row.  Stated as the claim; the  *)
(* code never turns foreign keys on, so the call succeeds.                  *)
C15_AddTaskUnknownAccountFails ==
    [][ (last'.op = "add_task" /\ \A u \in users : u.id # last'.args[1]) =>
          /\ last'.ret = NoId
          /\ tasks' = tasks
          /\ tags' = tags
          /\ task_tags' = task_tags ]_vars

(* C16: get_tasks(account) returns exactly the existing tasks of the        *)
(* account, each once, a task created earlier before a task created later,  *)
(* and the empty sequence when the account has no task.                     *)
C16_GetTasksInCreationOrder ==
    last.op = "get_tasks" =>
       LET owned == {t \in tasks : t.user_id = last.args[1]}
           row(d) == CHOOSE t \in tasks : t.id = d.id
       IN  /\ Len(last.ret) = Cardinality(owned)
           /\ {last.ret[i].id : i \in DOMAIN last.ret} = {t.id : t \in owned}
           /\ \A i \in DOMAIN last.ret : last.ret[i].title = row(last.ret[i]).title
           /\ \A i, j \in DOMAIN last.ret :
                 i < j => /\ row(last.ret[i]).created_at <= row(last.ret[j]).created_at
                          /\ row(last.ret[i]).id < row(last.ret[j]).id
           /\ owned = {} => last.ret = <<>>

(* C16's case: get_tasks has just returned two tasks of the account that    *)
(* were created at different times, a task created between the two having   *)
(* been deleted or belonging to the other account id.                       *)
C16_Witness ==
    /\ last.op = "get_tasks"
    /\ Len(last.ret) = 2
    /\ last.ret[2].id = last.ret[1].id + 2
    /\ \E t1, t2 \in tasks : /\ t1.id = last.ret[1].id
                             /\ t2.id = last.ret[2].id
                             /\ t1.created_at < t2.created_at

(* C24: task ids are never reused: no add_task returns the id of a task     *)
(* that delete_task removed, and the tag list get_tasks reports for the     *)
(* task just created holds only tags supplied at its creation.  Stated as   *)
(* the claim; ids are not reused, but the tag list of get_tasks is not      *)
(* made of the supplied names when a name holds a comma.                    *)
C24_TaskIdsNeverReused ==
    last.op = "add_task" =>
       /\ last.ret \notin deleted_tasks
       /\ \A d \in Elems(GetTasks(last.args[1])) :
             d.id = last.ret => Elems(d.tags) \subseteq Elems(last.args[2].tags)

----------------------------------------------------------------------------
(* Claims about the presentation layer, checked under SpecUI *)

(* C21: in view_tasks with the sort option "Due Date", the tasks shown are  *)
(* in ascending order of due date, and every task with no due date, or with *)
(* one that is no date, comes after all tasks that have a due date.         *)
C21_DueDateAscendingUndatedLast ==
    (last.op = "view_tasks" /\ last.args[5] = "Due Date") =>
        \A i, j \in DOMAIN last.ret :
            i < j =>
               /\ last.ret[i].due_date = Null => last.ret[j].due_date = Null
               /\ (last.ret[i].due_date # Null /\ last.ret[j].due_date # Null) =>
                     DateOrder(last.ret[i].due_date) <= DateOrder(last.ret[j].due_date)

(* C22: within one browser session, after one user logs out and another    *)
(* logs in, session_state.tags holds no tag name of another account that    *)
(* the account now logged in does not have itself.                          *)
C22_TagCacheOfNewLogin ==
    (last.op = "verify_user" /\ last.ret # NoId /\ session_state.authenticated) =>
        \A name \in session_state.tags :
            (\E g \in tags : g.user_id # last.ret /\ g.name = name) =>
                name \in GetAllTags(last.ret)

(* C19: no task with an empty title is stored through the presentation      *)
(* layer: the add path and the edit path check the title before calling     *)
(* the store, so every task of get_tasks has a non-empty title.  Stated as  *)
(* the claim; the edit form's submit does not check the title.              *)
C19_NoEmptyTitle ==
    \A user_id \in UserIds : \A d \in Elems(GetTasks(user_id)) : d.title # ""

(* C20: after TodoList.add_task, the edit form's submit, the completion     *)
(* toggles and TodoList.delete_task, st.session_state.tasks equals          *)
(* get_tasks(user) and st.session_state.tags equals the set of              *)
(* get_all_tags(user).  Stated as the claim; the completion toggles write   *)
(* to the cached list only, which a login leaves empty.                     *)
C20_SessionCachesInSync ==
    (/\ session_state.authenticated
     /\ last.op \in {"add_task", "update_task", "delete_task"}) =>
       /\ session_state.tasks = GetTasks(session_state.user_id)
       /\ session_state.tags = GetAllTags(session_state.user_id)

====
